---- MODULE Spec2Model ----
(***************************************************************************)
(* Credential storage of the Domeneshop CLI (src/credentials.py): a JSON   *)
(* file, the OS keychain reached through the keyring library, and the      *)
(* public multi-account API on top of both.  Every function of the module  *)
(* is an operator from a store state (and the keyring/file calls that      *)
(* raise during the call) to the resulting store state and return value;   *)
(* the actions apply these operators to the variables.                     *)
(***************************************************************************)
EXTENDS Naturals, Sequences, FiniteSets, TLC

VARIABLES
    file,     \* CONFIG_FILE on disk: [exists, parsable, doc]
    kc,       \* keychain secrets of SERVICE_NAME: key string -> value or None
    kidx,     \* the "_accounts" keychain entry: [set, val], val the decoded list
    avail,    \* KEYRING_AVAILABLE of the running process
    strict,   \* the keyring backend raises PasswordDeleteError on a missing entry
    last,     \* the last public operation and what it returned: [op, ok, how]
    steps,    \* number of public operations executed
    proc      \* calls in progress, where a specification runs them in steps

vars == <<file, kc, kidx, avail, strict, last, steps, proc>>

----------------------------------------------------------------------------
(* Bounds and value universes *)

MaxSteps == 2

CREDENTIAL_VERSION == 2

\* Python's None (a value no token, secret or name equals).
None == "<None>"

\* Account names as callers type them, in Python's sort order (code points).
NameOrder == <<"", " ", " A", "A", "Standard">>
RawNames == {NameOrder[i] : i \in 1..Len(NameOrder)}

\* Credentials handed to save_account: the pairs (t1,s1) and (t2,s2).
Creds == {<<"t1", "s1">>, <<"t2", "s2">>}

\* str.strip() on the names of RawNames
Strip(n) == CASE n = " " -> ""
              [] n = " A" -> "A"
              [] OTHER -> n

\* _get_keychain_key
get_keychain_key(account_name, key_type) == account_name \o ":" \o key_type

\* Names the operations that do not trim are called with: an account that
\* may be stored ("A", "Standard"), a name nothing is stored under unless a
\* migration was given it (" A"), and the empty name.
ExactNames == {"", " A", "A", "Standard"}

LegacyKeys == {"token", "secret"}
NameKeys(N) == {get_keychain_key(n, t) : n \in N, t \in {"token", "secret"}}
KcKeys == LegacyKeys \cup NameKeys(ExactNames)

\* "if x:" on an Optional[str]
Truthy(v) == v # None /\ v # ""

Range(q) == {q[i] : i \in 1..Len(q)}

----------------------------------------------------------------------------
(* The file backend *)

\* A parsed JSON value.  dict says that it is a JSON object; for an object,
\* keys are the keys present, and accounts is the "accounts" dict in insertion
\* order: <<name, token, secret>>.
EmptyDoc == [dict |-> TRUE, keys |-> {}, token |-> None, secret |-> None,
             version |-> 0, accounts |-> <<>>]
LegacyDoc(t, s) == [dict |-> TRUE, keys |-> {"token", "secret"}, token |-> t,
                    secret |-> s, version |-> 0, accounts |-> <<>>]
MultiDoc(accs) == [dict |-> TRUE, keys |-> {"version", "accounts"},
                   token |-> None, secret |-> None,
                   version |-> CREDENTIAL_VERSION, accounts |-> accs]
\* the JSON array []: valid JSON that json.load returns as a list
ListDoc == [EmptyDoc EXCEPT !.dict = FALSE]

NoFile == [exists |-> FALSE, parsable |-> FALSE, doc |-> EmptyDoc]
FileOf(d) == [exists |-> TRUE, parsable |-> TRUE, doc |-> d]

\* _read_file_data
read_file_data(s) ==
    IF ~s.file.exists THEN EmptyDoc
    ELSE IF ~s.file.parsable THEN EmptyDoc
    ELSE s.file.doc

\* a file whose content json.load rejects
GarbageFile == [exists |-> TRUE, parsable |-> FALSE, doc |-> EmptyDoc]

\* _write_file_data that keeps the accounts on disk which the new document
\* does not have
write_file_data_merge(s, data, F) ==
    LET old == IF s.file.exists /\ s.file.parsable THEN s.file.doc.accounts
               ELSE <<>>
        kept == SelectSeq(old, LAMBDA a :
                    \A i \in 1..Len(data.accounts) : data.accounts[i][1] # a[1])
    IN IF <<"write", "file">> \in F
       THEN [st |-> s, ok |-> FALSE]
       ELSE IF <<"trunc", "file">> \in F
       THEN [st |-> [s EXCEPT !.file = GarbageFile], ok |-> FALSE]
       ELSE [st |-> [s EXCEPT !.file =
                        FileOf([data EXCEPT !.accounts = kept \o data.accounts])],
             ok |-> TRUE]
\* _write_file_data: [st, ok].  open() raising leaves the file as it was;
\* json.dump raising after open(.., "w") leaves it truncated.
write_file_data(s, data, F) ==
    IF <<"write", "file">> \in F
    THEN [st |-> s, ok |-> FALSE]
    ELSE IF <<"trunc", "file">> \in F
    THEN [st |-> [s EXCEPT !.file = GarbageFile], ok |-> FALSE]
    ELSE [st |-> [s EXCEPT !.file = FileOf(data)], ok |-> TRUE]

\* _is_legacy_format
is_legacy_format(data) ==
    "token" \in data.keys /\ "secret" \in data.keys /\ "version" \notin data.keys

\* _is_multi_account_format
is_multi_account_format(data) ==
    /\ "version" \in data.keys
    /\ data.version = CREDENTIAL_VERSION
    /\ "accounts" \in data.keys

\* dict operations on the accounts dict
AccNames(accs) == {accs[i][1] : i \in 1..Len(accs)}
AccIndex(accs, n) == CHOOSE i \in 1..Len(accs) : accs[i][1] = n
\* accounts.get(name, {}) followed by .get("token"), .get("secret")
AccGet(accs, n) ==
    IF n \in AccNames(accs)
    THEN <<accs[AccIndex(accs, n)][2], accs[AccIndex(accs, n)][3]>>
    ELSE <<None, None>>
\* accounts[name] = {...}: in place when the key exists, appended otherwise
AccPut(accs, n, t, sec) ==
    IF n \in AccNames(accs)
    THEN [accs EXCEPT ![AccIndex(accs, n)] = <<n, t, sec>>]
    ELSE Append(accs, <<n, t, sec>>)
\* del accounts[name]
AccDel(accs, n) ==
    LET i == AccIndex(accs, n)
    IN SubSeq(accs, 1, i - 1) \o SubSeq(accs, i + 1, Len(accs))

----------------------------------------------------------------------------
(* The keychain backend *)

\* keyring.get_password raises
GetRaises(F, k) == <<"get", k>> \in F
\* keyring.set_password raises
SetRaises(F, k) == <<"set", k>> \in F
\* keyring.delete_password raises: an injected failure, or a missing entry
\* on a backend that reports it with PasswordDeleteError
DelRaises(s, F, k) == <<"del", k>> \in F \/ (s.strict /\ s.kc[k] = None)

KcSet(s, k, v) == [s EXCEPT !.kc[k] = v]
KcDel(s, k) == [s EXCEPT !.kc[k] = None]

\* _list_keychain_accounts
list_keychain_accounts(s, F) ==
    IF ~s.avail THEN <<>>
    ELSE IF GetRaises(F, "_accounts") THEN <<>>
    ELSE IF s.kidx.set THEN s.kidx.val
    ELSE <<>>

\* _save_keychain_account_list (its result is ignored by every caller)
save_keychain_account_list(s, accounts, F) ==
    IF ~s.avail THEN s
    ELSE IF SetRaises(F, "_accounts") THEN s
    ELSE [s EXCEPT !.kidx = [set |-> TRUE, val |-> accounts]]

\* "accounts = _list_keychain_accounts(); if name not in accounts:
\*  accounts.append(name); _save_keychain_account_list(accounts)"
IndexAdd(s, name, F) ==
    LET accounts == list_keychain_accounts(s, F)
    IN IF name \notin Range(accounts)
       THEN save_keychain_account_list(s, Append(accounts, name), F)
       ELSE s

\* list.remove(x): drops the first occurrence
SeqRemove(q, x) ==
    LET i == CHOOSE j \in 1..Len(q) : q[j] = x /\ \A m \in 1..(j - 1) : q[m] # x
    IN SubSeq(q, 1, i - 1) \o SubSeq(q, i + 1, Len(q))

----------------------------------------------------------------------------
(* list_accounts *)

Rank(n) == CHOOSE i \in 1..Len(NameOrder) : NameOrder[i] = n

\* sorted(list(set)): the elements of S in ascending order
RECURSIVE SortedSeq(_)
SortedSeq(S) ==
    IF S = {} THEN <<>>
    ELSE LET m == CHOOSE x \in S : \A y \in S : Rank(x) <= Rank(y)
         IN <<m>> \o SortedSeq(S \ {m})

\* what the file contributes to list_accounts
FileAccountNames(data) ==
    IF is_multi_account_format(data) THEN AccNames(data.accounts)
    ELSE IF is_legacy_format(data) THEN {"Standard"}
    ELSE {}

\* list_accounts without the set and the sort: the keychain list followed by
\* the file's names
list_accounts_unsorted(s, F) ==
    list_keychain_accounts(s, F) \o SortedSeq(FileAccountNames(read_file_data(s)))
list_accounts(s, F) ==
    SortedSeq(Range(list_keychain_accounts(s, F))
              \cup FileAccountNames(read_file_data(s)))

----------------------------------------------------------------------------
(* load_account *)

\* the keychain half of load_account: <<token, secret>> or <<None, None>>
LoadKeychain(s, name, F) ==
    LET kt == get_keychain_key(name, "token")
        ks == get_keychain_key(name, "secret")
    IN IF ~s.avail \/ GetRaises(F, kt) \/ GetRaises(F, ks) THEN <<None, None>>
       ELSE IF Truthy(s.kc[kt]) /\ Truthy(s.kc[ks]) THEN <<s.kc[kt], s.kc[ks]>>
       ELSE <<None, None>>

\* the file half of load_account
LoadFile(s, name) ==
    LET data == read_file_data(s)
    IN IF is_multi_account_format(data) THEN AccGet(data.accounts, name)
       ELSE IF is_legacy_format(data) /\ name = "Standard"
            THEN <<data.token, data.secret>>
       ELSE <<None, None>>

load_account(s, name, F) ==
    IF name = "" THEN <<None, None>>
    ELSE IF LoadKeychain(s, name, F) # <<None, None>> THEN LoadKeychain(s, name, F)
    ELSE LoadFile(s, name)

----------------------------------------------------------------------------
(* save_account *)

\* the document save_account makes of the one it read (lines 210-223)
SaveFileDocument(data, name, token, secret) ==
    LET base == IF is_legacy_format(data)
                THEN MultiDoc(<< <<"Standard", data.token, data.secret>> >>)
                ELSE IF ~is_multi_account_format(data) THEN MultiDoc(<<>>)
                ELSE data
    IN [base EXCEPT !.accounts = AccPut(base.accounts, name, token, secret)]

\* the file fallback of save_account (lines 207-228)
SaveFile(s, name, token, secret, F) ==
    LET new == SaveFileDocument(read_file_data(s), name, token, secret)
        w == write_file_data(s, new, F)
    IN IF w.ok THEN [st |-> w.st, ok |-> TRUE, how |-> "file"]
       ELSE [st |-> w.st, ok |-> FALSE, how |-> "failed"]

\* the keychain attempt of save_account (lines 192-205): [st, raised]
SaveKeychain(s, name, token, secret, F) ==
    LET kt == get_keychain_key(name, "token")
        ks == get_keychain_key(name, "secret")
    IN IF SetRaises(F, kt) THEN [st |-> s, raised |-> TRUE]
       ELSE IF SetRaises(F, ks) THEN [st |-> KcSet(s, kt, token), raised |-> TRUE]
       ELSE [st |-> IndexAdd(KcSet(KcSet(s, kt, token), ks, secret), name, F),
             raised |-> FALSE]

\* save_account without the check of the name
save_account_any_name(s, rawname, token, secret, prefer_keychain, F) ==
    LET name == Strip(rawname)
        k == SaveKeychain(s, name, token, secret, F)
    IN IF prefer_keychain /\ s.avail
       THEN IF ~k.raised THEN [st |-> k.st, ok |-> TRUE, how |-> "keychain"]
            ELSE SaveFile(k.st, name, token, secret, F)
       ELSE SaveFile(s, name, token, secret, F)
save_account(s, rawname, token, secret, prefer_keychain, F) ==
    IF rawname = "" \/ Strip(rawname) = ""
    THEN [st |-> s, ok |-> FALSE, how |-> "empty"]
    ELSE LET name == Strip(rawname)
             k == SaveKeychain(s, name, token, secret, F)
         IN IF prefer_keychain /\ s.avail
            THEN IF ~k.raised THEN [st |-> k.st, ok |-> TRUE, how |-> "keychain"]
                 ELSE SaveFile(k.st, name, token, secret, F)
            ELSE SaveFile(s, name, token, secret, F)

----------------------------------------------------------------------------
(* delete_account *)

\* the keychain half of delete_account that leaves the index alone
DeleteKeychain_keep_index(s, name, F) ==
    LET kt == get_keychain_key(name, "token")
        ks == get_keychain_key(name, "secret")
    IN IF ~s.avail THEN [st |-> s, deleted |-> FALSE]
       ELSE IF DelRaises(s, F, kt) THEN [st |-> s, deleted |-> FALSE]
       ELSE IF DelRaises(KcDel(s, kt), F, ks)
            THEN [st |-> KcDel(s, kt), deleted |-> FALSE]
       ELSE [st |-> KcDel(KcDel(s, kt), ks), deleted |-> TRUE]
\* the keychain half of delete_account (lines 279-291): [st, deleted]
DeleteKeychain(s, name, F) ==
    LET kt == get_keychain_key(name, "token")
        ks == get_keychain_key(name, "secret")
    IN IF ~s.avail THEN [st |-> s, deleted |-> FALSE]
       ELSE IF DelRaises(s, F, kt) THEN [st |-> s, deleted |-> FALSE]
       ELSE IF DelRaises(KcDel(s, kt), F, ks)
            THEN [st |-> KcDel(s, kt), deleted |-> FALSE]
       ELSE LET s2 == KcDel(KcDel(s, kt), ks)
                accounts == list_keychain_accounts(s2, F)
            IN [st |-> IF name \in Range(accounts)
                       THEN save_keychain_account_list(s2, SeqRemove(accounts, name), F)
                       ELSE s2,
                deleted |-> TRUE]

\* the file half of delete_account (lines 294-299): [st, deleted]
DeleteFile(s, name, F) ==
    LET data == read_file_data(s)
    IN IF is_multi_account_format(data) /\ name \in AccNames(data.accounts)
       THEN [st |-> write_file_data(s, [data EXCEPT !.accounts =
                                           AccDel(data.accounts, name)], F).st,
             deleted |-> TRUE]
       ELSE [st |-> s, deleted |-> FALSE]

delete_account(s, name, F) ==
    LET k == DeleteKeychain(s, name, F)
        f == DeleteFile(k.st, name, F)
    IN [st |-> f.st, ok |-> k.deleted \/ f.deleted]

----------------------------------------------------------------------------
(* rename_account *)

\* rename_account without the check that the new name is free
rename_account_unchecked(s, old_name, rawnew, F) ==
    IF rawnew = "" \/ Strip(rawnew) = ""
    THEN [st |-> s, ok |-> FALSE, how |-> "empty"]
    ELSE LET new_name == Strip(rawnew)
             cred == load_account(s, old_name, F)
             sv == save_account(s, new_name, cred[1], cred[2], TRUE, F)
         IN IF ~Truthy(cred[1]) \/ ~Truthy(cred[2])
            THEN [st |-> s, ok |-> FALSE, how |-> "missing"]
            ELSE IF ~sv.ok
            THEN [st |-> sv.st, ok |-> FALSE, how |-> "failed"]
            ELSE [st |-> delete_account(sv.st, old_name, F).st,
                  ok |-> TRUE, how |-> "renamed"]
rename_account(s, old_name, rawnew, F) ==
    IF rawnew = "" \/ Strip(rawnew) = ""
    THEN [st |-> s, ok |-> FALSE, how |-> "empty"]
    ELSE LET new_name == Strip(rawnew)
             cred == load_account(s, old_name, F)
             sv == save_account(s, new_name, cred[1], cred[2], TRUE, F)
         IN IF ~Truthy(cred[1]) \/ ~Truthy(cred[2])
            THEN [st |-> s, ok |-> FALSE, how |-> "missing"]
            ELSE IF new_name \in Range(list_accounts(s, F)) /\ new_name # old_name
            THEN [st |-> s, ok |-> FALSE, how |-> "exists"]
            ELSE IF ~sv.ok
            THEN [st |-> sv.st, ok |-> FALSE, how |-> "failed"]
            ELSE [st |-> delete_account(sv.st, old_name, F).st,
                  ok |-> TRUE, how |-> "renamed"]

----------------------------------------------------------------------------
(* migrate_single_to_multi, needs_migration *)

\* best-effort removal of the legacy keys (lines 385-389, 487-489)
DeleteLegacyKeys(s, F) ==
    IF DelRaises(s, F, "token") THEN s
    ELSE IF DelRaises(KcDel(s, "token"), F, "secret") THEN KcDel(s, "token")
    ELSE KcDel(KcDel(s, "token"), "secret")

\* the keychain half of migrate_single_to_multi with the default name in
\* place of account_name
MigrateLegacyKeychain_default_name(s, account_name, F) ==
    LET token == s.kc["token"]
        secret == s.kc["secret"]
        k == SaveKeychain(s, "Standard", token, secret, F)
    IN IF ~s.avail \/ GetRaises(F, "token") \/ GetRaises(F, "secret")
       THEN [st |-> s, ok |-> FALSE, how |-> "none"]
       ELSE IF ~(Truthy(token) /\ Truthy(secret))
       THEN [st |-> s, ok |-> FALSE, how |-> "none"]
       ELSE IF k.raised THEN [st |-> k.st, ok |-> FALSE, how |-> "none"]
       ELSE [st |-> DeleteLegacyKeys(k.st, F), ok |-> TRUE, how |-> "keychain"]
\* the keychain half of migrate_single_to_multi (lines 368-395)
MigrateLegacyKeychain(s, account_name, F) ==
    LET token == s.kc["token"]
        secret == s.kc["secret"]
        k == SaveKeychain(s, account_name, token, secret, F)
    IN IF ~s.avail \/ GetRaises(F, "token") \/ GetRaises(F, "secret")
       THEN [st |-> s, ok |-> FALSE, how |-> "none"]
       ELSE IF ~(Truthy(token) /\ Truthy(secret))
       THEN [st |-> s, ok |-> FALSE, how |-> "none"]
       ELSE IF k.raised THEN [st |-> k.st, ok |-> FALSE, how |-> "none"]
       ELSE [st |-> DeleteLegacyKeys(k.st, F), ok |-> TRUE, how |-> "keychain"]

\* migrate_single_to_multi that looks at the keychain before the file
migrate_single_to_multi_keychain_first(s, account_name, F) ==
    LET k == MigrateLegacyKeychain(s, account_name, F)
        data == read_file_data(k.st)
        w == write_file_data(k.st, MultiDoc(<< <<account_name, data.token,
                                                 data.secret>> >>), F)
    IN IF k.ok THEN k
       ELSE IF is_legacy_format(data) /\ w.ok
       THEN [st |-> w.st, ok |-> TRUE, how |-> "file"]
       ELSE IF is_legacy_format(data)
       THEN [st |-> w.st, ok |-> FALSE, how |-> "none"]
       ELSE [st |-> k.st, ok |-> FALSE, how |-> "none"]
migrate_single_to_multi(s, account_name, F) ==
    LET data == read_file_data(s)
        w == write_file_data(s, MultiDoc(<< <<account_name, data.token,
                                              data.secret>> >>), F)
    IN IF is_legacy_format(data) /\ w.ok
       THEN [st |-> w.st, ok |-> TRUE, how |-> "file"]
       ELSE IF is_legacy_format(data)
       THEN MigrateLegacyKeychain(w.st, account_name, F)
       ELSE MigrateLegacyKeychain(s, account_name, F)

needs_migration(s, F) ==
    \/ is_legacy_format(read_file_data(s))
    \/ (s.avail /\ ~GetRaises(F, "token") /\ Truthy(s.kc["token"]))

----------------------------------------------------------------------------
(* load_credentials *)

\* env is <<DOMENESHOP_TOKEN, DOMENESHOP_SECRET>>, None when unset;
\* account_name is None when omitted
\* load_credentials that looks at account_name before the environment
load_credentials_account_first(s, env, account_name, F) ==
    IF Truthy(account_name) THEN load_account(s, account_name, F)
    ELSE IF Truthy(env[1]) /\ Truthy(env[2]) THEN env
    ELSE <<None, None>>
load_credentials(s, env, account_name, F) ==
    LET data == read_file_data(s)
        accounts == list_accounts(s, F)
        legacyKc == s.avail /\ ~GetRaises(F, "token") /\ ~GetRaises(F, "secret")
                    /\ Truthy(s.kc["token"]) /\ Truthy(s.kc["secret"])
    IN IF Truthy(env[1]) /\ Truthy(env[2]) THEN env
       ELSE IF Truthy(account_name) THEN load_account(s, account_name, F)
       ELSE IF legacyKc THEN <<s.kc["token"], s.kc["secret"]>>
       ELSE IF is_legacy_format(data) THEN <<data.token, data.secret>>
       ELSE IF Len(accounts) = 1 THEN load_account(s, accounts[1], F)
       ELSE <<None, None>>

----------------------------------------------------------------------------
(* CredentialStorage.get_storage_type *)

\* CredentialStorage.is_keyring_available: keyring.get_keyring() may raise
is_keyring_available(s, F) == s.avail /\ <<"get", "keyring">> \notin F

\* env is <<DOMENESHOP_TOKEN, DOMENESHOP_SECRET>>
get_storage_type(s, env, F) ==
    IF Truthy(env[1]) THEN "environment"
    ELSE IF /\ is_keyring_available(s, F)
            /\ \/ list_keychain_accounts(s, F) # <<>>
               \/ (~GetRaises(F, "token") /\ Truthy(s.kc["token"]))
         THEN "keychain"
    ELSE IF s.file.exists THEN "file"
    ELSE "none"

----------------------------------------------------------------------------
(* delete_credentials *)

\* "for account in accounts: delete_account(account)"
RECURSIVE DeleteEach(_, _, _)
DeleteEach(s, accounts, F) ==
    IF accounts = <<>> THEN s
    ELSE DeleteEach(delete_account(s, Head(accounts), F).st, Tail(accounts), F)

\* keyring.delete_password(SERVICE_NAME, "_accounts")
IndexDelRaises(s, F) == <<"del", "_accounts">> \in F \/ (s.strict /\ ~s.kidx.set)

\* lines 486-492
DeleteLegacyAndIndex(s, F) ==
    IF ~s.avail THEN s
    ELSE IF DelRaises(s, F, "token") THEN s
    ELSE IF DelRaises(KcDel(s, "token"), F, "secret") THEN KcDel(s, "token")
    ELSE IF IndexDelRaises(s, F) THEN KcDel(KcDel(s, "token"), "secret")
    ELSE [KcDel(KcDel(s, "token"), "secret") EXCEPT
             !.kidx = [set |-> FALSE, val |-> <<>>]]

\* CONFIG_FILE.unlink() inside try/except
Unlink(s, F) ==
    IF ~s.file.exists \/ <<"unlink", "file">> \in F THEN s
    ELSE [s EXCEPT !.file = NoFile]

delete_credentials(s, F) ==
    [st |-> Unlink(DeleteLegacyAndIndex(DeleteEach(s, list_accounts(s, F), F), F), F),
     ok |-> TRUE]

----------------------------------------------------------------------------
(* migrate_file_to_keychain *)

\* the copy loop (lines 521-537): [st, migrated]
RECURSIVE CopyEach(_, _, _, _)
CopyEach(s, accs, migrated, F) ==
    IF accs = <<>> THEN [st |-> s, migrated |-> migrated]
    ELSE LET a == Head(accs)
             k == SaveKeychain(s, a[1], a[2], a[3], F)
         IN IF Truthy(a[2]) /\ Truthy(a[3])
            THEN CopyEach(k.st, Tail(accs), IF k.raised THEN migrated ELSE migrated + 1, F)
            ELSE CopyEach(s, Tail(accs), migrated, F)

\* migrate_file_to_keychain that leaves the file in place after the copy
migrate_file_to_keychain_keep_file(s, F) ==
    LET s1 == IF is_legacy_format(read_file_data(s))
              THEN migrate_single_to_multi(s, "Standard", F).st
              ELSE s
        data == read_file_data(s1)
        c == CopyEach(s1, data.accounts, 0, F)
    IN IF ~s.avail THEN [st |-> s, ok |-> FALSE, n |-> 0]
       ELSE IF ~is_multi_account_format(data) THEN [st |-> s1, ok |-> FALSE, n |-> 0]
       ELSE IF c.migrated > 0
            THEN [st |-> c.st, ok |-> TRUE, n |-> c.migrated]
       ELSE [st |-> c.st, ok |-> FALSE, n |-> 0]
migrate_file_to_keychain(s, F) ==
    LET s1 == IF is_legacy_format(read_file_data(s))
              THEN migrate_single_to_multi(s, "Standard", F).st
              ELSE s
        data == read_file_data(s1)
        c == CopyEach(s1, data.accounts, 0, F)
    IN IF ~s.avail THEN [st |-> s, ok |-> FALSE, n |-> 0]
       ELSE IF ~is_multi_account_format(data) THEN [st |-> s1, ok |-> FALSE, n |-> 0]
       ELSE IF c.migrated > 0
            THEN [st |-> Unlink(c.st, F), ok |-> TRUE, n |-> c.migrated]
       ELSE [st |-> c.st, ok |-> FALSE, n |-> 0]

----------------------------------------------------------------------------
(* Exceptions that leave the public functions *)

\* _is_multi_account_format(data) raises AttributeError: data.get does not
\* exist on a list ("token" in data, in _is_legacy_format, is just False)
FormatRaises(s) == ~read_file_data(s).dict

\* list_accounts reaches _is_multi_account_format on every call
list_accounts_raises(s, F) == FormatRaises(s)

\* load_account reads the file unless the name is empty or the keychain
\* returned a complete pair
load_account_raises(s, name, F) ==
    FormatRaises(s) /\ name # "" /\ LoadKeychain(s, name, F) = <<None, None>>

\* save_account reads the file unless the name is blank or the keychain
\* accepted the write
save_account_raises(s, rawname, token, secret, prefer_keychain, F) ==
    /\ FormatRaises(s)
    /\ rawname # "" /\ Strip(rawname) # ""
    /\ \/ ~(prefer_keychain /\ s.avail)
       \/ SaveKeychain(s, Strip(rawname), token, secret, F).raised

\* delete_account reads the file after the keychain half
delete_account_raises(s, name, F) == FormatRaises(s)

\* rename_account: load_account(old_name) raises, or it returned a keychain
\* pair and list_accounts() raises; an empty old_name is reported missing
rename_account_raises(s, old_name, rawnew, F) ==
    FormatRaises(s) /\ rawnew # "" /\ Strip(rawnew) # "" /\ old_name # ""

\* needs_migration and migrate_single_to_multi only call _is_legacy_format
needs_migration_raises(s, F) == FALSE
migrate_single_to_multi_raises(s, account_name, F) == FALSE

\* migrate_file_to_keychain returns before the file when keyring is missing
migrate_file_to_keychain_raises(s, F) == FormatRaises(s) /\ s.avail

\* load_credentials reads the file format through load_account or through
\* list_accounts, unless the environment or the legacy keychain pair answers
load_credentials_raises(s, env, account_name, F) ==
    IF Truthy(env[1]) /\ Truthy(env[2]) THEN FALSE
    ELSE IF Truthy(account_name) THEN load_account_raises(s, account_name, F)
    ELSE IF /\ s.avail /\ ~GetRaises(F, "token") /\ ~GetRaises(F, "secret")
            /\ Truthy(s.kc["token"]) /\ Truthy(s.kc["secret"])
         THEN FALSE
    ELSE list_accounts_raises(s, F)

\* delete_credentials starts with list_accounts()
delete_credentials_raises(s, F) == list_accounts_raises(s, F)

\* what the caller gets when the exception leaves the function: no result,
\* and the store as the calls made before the raise left it
Raised(st) == [st |-> st, ok |-> FALSE, how |-> "raised"]
\* what the caller gets otherwise
Returned(r) == [st |-> r.st, ok |-> r.ok, how |-> ""]

call_save_account(s, rawname, token, secret, prefer_keychain, F) ==
    IF save_account_raises(s, rawname, token, secret, prefer_keychain, F)
    THEN Raised(IF prefer_keychain /\ s.avail
                THEN SaveKeychain(s, Strip(rawname), token, secret, F).st
                ELSE s)
    ELSE save_account(s, rawname, token, secret, prefer_keychain, F)

call_delete_account(s, name, F) ==
    IF delete_account_raises(s, name, F)
    THEN Raised(DeleteKeychain(s, name, F).st)
    ELSE Returned(delete_account(s, name, F))

call_rename_account(s, old_name, rawnew, F) ==
    IF rename_account_raises(s, old_name, rawnew, F) THEN Raised(s)
    ELSE rename_account(s, old_name, rawnew, F)

call_migrate_file_to_keychain(s, F) ==
    IF migrate_file_to_keychain_raises(s, F) THEN Raised(s)
    ELSE Returned(migrate_file_to_keychain(s, F))

call_delete_credentials(s, F) ==
    IF delete_credentials_raises(s, F) THEN Raised(s)
    ELSE Returned(delete_credentials(s, F))

----------------------------------------------------------------------------
(* The state machine *)

Store == [file |-> file, kc |-> kc, kidx |-> kidx, avail |-> avail,
          strict |-> strict]

\* The keyring and file calls that can raise during one operation: none of
\* them, or exactly one call site for the whole operation.
IndexSites == {<<"get", "_accounts">>, <<"set", "_accounts">>}
LegacySites == {"get", "del"} \X LegacyKeys
FileSites == {<<"write", "file">>, <<"trunc", "file">>}
LoadSites(n) == {"get"} \X NameKeys({n})
SaveSites(n) == ({"set"} \X NameKeys({n})) \cup IndexSites \cup FileSites
DeleteSites(n) == ({"del"} \X NameKeys({n})) \cup IndexSites \cup FileSites
\* save_account returns before any call when the name trims to nothing, and
\* goes to the file alone when prefer_keychain is false
SaveCallSites(rawname, prefer_keychain) ==
    IF Strip(rawname) = "" THEN {}
    ELSE IF prefer_keychain THEN SaveSites(Strip(rawname))
    ELSE FileSites
\* rename_account returns before any call when the new name trims to nothing
RenameSites(o, rawnew) ==
    IF Strip(rawnew) = "" THEN {}
    ELSE LoadSites(o) \cup SaveSites(Strip(rawnew)) \cup DeleteSites(o)
MigrateSites(n) == SaveSites(n) \cup LegacySites
WipeSites(N) == UNION {DeleteSites(n) : n \in N} \cup LegacySites
                \cup {<<"del", "_accounts">>, <<"unlink", "file">>}
CopySites(N) == UNION {MigrateSites(n) : n \in N \cup {"Standard"}}
                \cup {<<"unlink", "file">>}
\* without keyring no keyring call is made
Live(sites) == IF avail THEN sites ELSE sites \cap (FileSites \cup {<<"unlink", "file">>})
FaultSets(sites) == {{}} \cup {{x} : x \in sites}

Install(st, op, ok, how) ==
    /\ file' = st.file
    /\ kc' = st.kc
    /\ kidx' = st.kidx
    /\ avail' = st.avail
    /\ strict' = st.strict
    /\ last' = [op |-> op, ok |-> ok, how |-> how]
    /\ steps' = steps + 1
    /\ proc' = proc

EmptyKc == [k \in KcKeys |-> None]
\* every call runs to its end before the next one starts
NoProc == <<>>
NoIndex == [set |-> FALSE, val |-> <<>>]

\* A fresh installation, or one left by the single-account release: a legacy
\* file, legacy un-namespaced keychain entries, or both.
Init ==
    /\ avail \in BOOLEAN
    /\ strict \in (IF avail THEN BOOLEAN ELSE {FALSE})
    /\ file \in {NoFile, FileOf(LegacyDoc("t1", "s1"))}
    /\ kc \in {EmptyKc} \cup
              (IF avail THEN {[EmptyKc EXCEPT !["token"] = "t2", !["secret"] = "s2"]}
               ELSE {})
    /\ kidx = NoIndex
    /\ last = [op |-> "init", ok |-> FALSE, how |-> ""]
    /\ steps = 0
    /\ proc = NoProc

SaveAccount ==
    /\ steps < MaxSteps
    /\ \E n \in RawNames, c \in Creds, p \in BOOLEAN :
         \E F \in FaultSets(Live(SaveCallSites(n, p))) :
           \E r \in {call_save_account(Store, n, c[1], c[2], p, F)} :
              Install(r.st, "save_account", r.ok, r.how)

DeleteAccount ==
    /\ steps < MaxSteps
    /\ \E n \in ExactNames :
         \E F \in FaultSets(Live(DeleteSites(n))) :
           \E r \in {call_delete_account(Store, n, F)} :
              Install(r.st, "delete_account", r.ok, r.how)

RenameAccount ==
    /\ steps < MaxSteps
    /\ \E o \in ExactNames, n \in RawNames :
         \E F \in FaultSets(Live(RenameSites(o, n))) :
           \E r \in {call_rename_account(Store, o, n, F)} :
              Install(r.st, "rename_account", r.ok, r.how)

MigrateSingleToMulti ==
    /\ steps < MaxSteps
    /\ \E n \in ExactNames :
         \E F \in FaultSets(Live(MigrateSites(n))) :
           \E r \in {migrate_single_to_multi(Store, n, F)} :
              Install(r.st, "migrate_single_to_multi", r.ok, r.how)

MigrateFileToKeychain ==
    /\ steps < MaxSteps
    /\ \E F \in FaultSets(Live(CopySites(FileAccountNames(read_file_data(Store))))) :
         \E r \in {call_migrate_file_to_keychain(Store, F)} :
            Install(r.st, "migrate_file_to_keychain", r.ok, r.how)

DeleteCredentials ==
    /\ steps < MaxSteps
    /\ \E F \in FaultSets(Live(WipeSites(Range(list_accounts(Store, {}))))) :
         \E r \in {call_delete_credentials(Store, F)} :
            Install(r.st, "delete_credentials", r.ok, r.how)

\* keyring gets installed: a later process finds KEYRING_AVAILABLE true
InstallKeyring ==
    /\ ~avail
    /\ avail' = TRUE
    /\ strict' \in BOOLEAN
    /\ UNCHANGED <<file, kc, kidx, last, steps, proc>>

Next ==
    \/ SaveAccount
    \/ DeleteAccount
    \/ RenameAccount
    \/ MigrateSingleToMulti
    \/ MigrateFileToKeychain
    \/ DeleteCredentials
    \/ InstallKeyring

Spec == Init /\ [][Next]_vars

\* The same state machine, named apart for the properties of the keychain
\* index, which look one call ahead for every operation and argument.
IndexSpec == Init /\ [][Next]_vars

\* What a process may find at start besides a fresh or legacy installation:
\* a file that is not JSON, a file holding the JSON array [], and a legacy
\* keychain pair of which one entry is missing (the entries are written and
\* deleted one call at a time, and the user can delete either).
InitPersisted ==
    /\ avail \in BOOLEAN
    /\ strict \in (IF avail THEN BOOLEAN ELSE {FALSE})
    /\ file \in {NoFile, GarbageFile, FileOf(ListDoc),
                 FileOf(LegacyDoc("t1", "s1"))}
    /\ kc \in {EmptyKc} \cup
              (IF avail
               THEN {[EmptyKc EXCEPT !["token"] = "t2", !["secret"] = "s2"],
                     [EmptyKc EXCEPT !["token"] = "t2"]}
               ELSE {})
    /\ kidx = NoIndex
    /\ last = [op |-> "init", ok |-> FALSE, how |-> ""]
    /\ steps = 0
    /\ proc = NoProc

PersistedSpec == InitPersisted /\ [][Next]_vars

\* The same operations from a store that holds nothing: no file, no keychain
\* entry.
InitEmpty == Init /\ ~file.exists /\ kc = EmptyKc

EmptySpec == InitEmpty /\ [][Next]_vars

----------------------------------------------------------------------------
(* Two processes in save_account on the file backend *)

\* Each process holds its own copy of the document between _read_file_data
\* (line 208) and _write_file_data (line 225); the file is all they share.
Writers == {1, 2}
WriterName(w) == IF w = 1 THEN "A" ELSE "Standard"
Other(w) == 3 - w

\* keyring is not installed, so both calls go to the file.  proc[w].after
\* records that w read the file after the other process had written it.
InitWriters ==
    /\ avail = FALSE
    /\ strict = FALSE
    /\ file \in {NoFile, GarbageFile, FileOf(MultiDoc(<<>>)),
                 FileOf(MultiDoc(<< <<" A", "t1", "s1">> >>))}
    /\ kc = EmptyKc
    /\ kidx = NoIndex
    /\ last = [op |-> "init", ok |-> FALSE, how |-> ""]
    /\ steps = 0
    /\ proc = [w \in Writers |->
                 [pc |-> "read", data |-> EmptyDoc, after |-> FALSE, ok |-> FALSE]]

\* lines 208-223: read the document and put the own account into the copy
ReadDocument(w) ==
    /\ proc[w].pc = "read"
    /\ \E c \in Creds :
         proc' = [proc EXCEPT ![w] =
                    [pc |-> "write",
                     data |-> SaveFileDocument(read_file_data(Store),
                                               WriterName(w), c[1], c[2]),
                     after |-> proc[Other(w)].pc = "done" /\ proc[Other(w)].ok,
                     ok |-> FALSE]]
    /\ last' = [op |-> "read_file_data", ok |-> TRUE, how |-> WriterName(w)]
    /\ UNCHANGED <<file, kc, kidx, avail, strict, steps>>

\* line 225: write the copy over the file
WriteDocument(w) ==
    /\ proc[w].pc = "write"
    /\ \E F \in FaultSets(FileSites) :
         \E r \in {write_file_data(Store, proc[w].data, F)} :
            /\ file' = r.st.file
            /\ proc' = [proc EXCEPT ![w].pc = "done", ![w].ok = r.ok]
            /\ last' = [op |-> "write_file_data", ok |-> r.ok,
                        how |-> WriterName(w)]
    /\ UNCHANGED <<kc, kidx, avail, strict, steps>>

NextWriters == \E w \in Writers : ReadDocument(w) \/ WriteDocument(w)

WriterSpec == InitWriters /\ [][NextWriters]_vars

----------------------------------------------------------------------------
(* migrate_file_to_keychain, one file or keyring call at a time *)

\* the accounts a file holds, a legacy file holding "Standard"
Held(f) ==
    IF ~(f.exists /\ f.parsable) THEN <<>>
    ELSE IF is_multi_account_format(f.doc) THEN f.doc.accounts
    ELSE IF is_legacy_format(f.doc)
         THEN << <<"Standard", f.doc.token, f.doc.secret>> >>
    ELSE <<>>

\* the accounts of the loop that pass "if token and secret"
Copyable(accs) == SelectSeq(accs, LAMBDA a : Truthy(a[2]) /\ Truthy(a[3]))

\* where the call goes after an account: the next account, the unlink of
\* line 542 when something was migrated, or the return
AfterAccount(todo, migrated) ==
    IF todo # <<>> THEN "token"
    ELSE IF migrated > 0 THEN "unlink"
    ELSE "done"

Running(pc, ok) ==
    [op |-> "migrate_file_to_keychain", ok |-> ok,
     how |-> IF pc = "done" THEN "done" ELSE "running"]

\* keyring is installed; the keychain is empty or still holds an older copy
\* of one account.  proc.held is what the file held when the call started.
InitMigration ==
    /\ avail = TRUE
    /\ strict = FALSE
    /\ file \in {FileOf(LegacyDoc("t1", "s1")),
                 FileOf(MultiDoc(<< <<"A", "t1", "s1">> >>)),
                 FileOf(MultiDoc(<< <<"A", "t1", "s1">>,
                                    <<"Standard", "t2", "s2">> >>))}
    /\ \E old \in {None, "A", "Standard"} :
         /\ kc = IF old = None THEN EmptyKc
                 ELSE [EmptyKc EXCEPT ![get_keychain_key(old, "token")] = "t2",
                                      ![get_keychain_key(old, "secret")] = "s1"]
         /\ kidx = IF old = None THEN NoIndex
                   ELSE [set |-> TRUE, val |-> <<old>>]
    /\ last = [op |-> "init", ok |-> FALSE, how |-> ""]
    /\ steps = 0
    /\ proc = [pc |-> "start", todo |-> <<>>, migrated |-> 0,
               held |-> Held(file)]

\* lines 508-519: the checks before the loop
MigrateStart ==
    /\ proc.pc = "start"
    /\ LET data == read_file_data(Store)
           pc == IF ~avail THEN "done"
                 ELSE IF is_legacy_format(data) THEN "open"
                 ELSE IF ~is_multi_account_format(data) THEN "done"
                 ELSE AfterAccount(Copyable(data.accounts), 0)
       IN /\ proc' = [proc EXCEPT !.pc = pc,
                                   !.todo = IF pc = "token"
                                            THEN Copyable(data.accounts)
                                            ELSE <<>>]
          /\ last' = Running(pc, FALSE)
    /\ UNCHANGED <<file, kc, kidx, avail, strict, steps>>

\* line 515, migrate_single_to_multi("Standard"), in _write_file_data:
\* open(CONFIG_FILE, "w") empties the file; if it raises, nothing is written,
\* the file is still legacy and the call returns False at line 519
MigrateOpen ==
    /\ proc.pc = "open"
    /\ \E F \in FaultSets({<<"write", "file">>}) :
         IF <<"write", "file">> \in F
         THEN /\ proc' = [proc EXCEPT !.pc = "done"]
              /\ last' = Running("done", FALSE)
              /\ file' = file
         ELSE /\ proc' = [proc EXCEPT !.pc = "dump"]
              /\ last' = Running("dump", FALSE)
              /\ file' = GarbageFile
    /\ UNCHANGED <<kc, kidx, avail, strict, steps>>

\* json.dump fills the file; if it raises, the file stays as open() left it
\* and the call returns False at line 519; else line 516 reads it back
MigrateDump ==
    /\ proc.pc = "dump"
    /\ \E F \in FaultSets({<<"trunc", "file">>}) :
         \E r \in {write_file_data(Store, MultiDoc(proc.held), F)} :
            LET pc == IF r.ok
                      THEN AfterAccount(Copyable(proc.held), 0)
                      ELSE "done"
            IN /\ file' = r.st.file
               /\ proc' = [proc EXCEPT !.pc = pc,
                                        !.todo = IF pc = "token"
                                                 THEN Copyable(proc.held)
                                                 ELSE <<>>]
               /\ last' = Running(pc, FALSE)
    /\ UNCHANGED <<kc, kidx, avail, strict, steps>>

\* line 527: set_password of the token; an exception skips the account
MigrateSetToken ==
    /\ proc.pc = "token"
    /\ LET a == Head(proc.todo)
           kt == get_keychain_key(a[1], "token")
       IN \E F \in FaultSets({<<"set", kt>>}) :
            IF SetRaises(F, kt)
            THEN LET pc == AfterAccount(Tail(proc.todo), proc.migrated)
                 IN /\ proc' = [proc EXCEPT !.pc = pc, !.todo = Tail(proc.todo)]
                    /\ last' = Running(pc, FALSE)
                    /\ kc' = kc
            ELSE /\ proc' = [proc EXCEPT !.pc = "secret"]
                 /\ last' = Running("secret", FALSE)
                 /\ kc' = KcSet(Store, kt, a[2]).kc
    /\ UNCHANGED <<file, kidx, avail, strict, steps>>

\* line 528: set_password of the secret
MigrateSetSecret ==
    /\ proc.pc = "secret"
    /\ LET a == Head(proc.todo)
           ks == get_keychain_key(a[1], "secret")
       IN \E F \in FaultSets({<<"set", ks>>}) :
            IF SetRaises(F, ks)
            THEN LET pc == AfterAccount(Tail(proc.todo), proc.migrated)
                 IN /\ proc' = [proc EXCEPT !.pc = pc, !.todo = Tail(proc.todo)]
                    /\ last' = Running(pc, FALSE)
                    /\ kc' = kc
            ELSE /\ proc' = [proc EXCEPT !.pc = "index"]
                 /\ last' = Running("index", FALSE)
                 /\ kc' = KcSet(Store, ks, a[3]).kc
    /\ UNCHANGED <<file, kidx, avail, strict, steps>>

\* MigrateIndex that removes the file as soon as one account is copied
MigrateIndex_unlink ==
    /\ proc.pc = "index"
    /\ \E F \in FaultSets(IndexSites) :
         LET pc == AfterAccount(Tail(proc.todo), proc.migrated + 1)
         IN /\ kidx' = IndexAdd(Store, Head(proc.todo)[1], F).kidx
            /\ proc' = [proc EXCEPT !.pc = pc, !.todo = Tail(proc.todo),
                                     !.migrated = proc.migrated + 1]
            /\ last' = Running(pc, FALSE)
    /\ file' = NoFile
    /\ UNCHANGED <<kc, avail, strict, steps>>
\* lines 530-535: the index update and the count
MigrateIndex ==
    /\ proc.pc = "index"
    /\ \E F \in FaultSets(IndexSites) :
         LET pc == AfterAccount(Tail(proc.todo), proc.migrated + 1)
         IN /\ kidx' = IndexAdd(Store, Head(proc.todo)[1], F).kidx
            /\ proc' = [proc EXCEPT !.pc = pc, !.todo = Tail(proc.todo),
                                     !.migrated = proc.migrated + 1]
            /\ last' = Running(pc, FALSE)
    /\ UNCHANGED <<file, kc, avail, strict, steps>>

\* lines 539-545: the unlink after the loop, and the return
MigrateUnlink ==
    /\ proc.pc = "unlink"
    /\ \E F \in FaultSets({<<"unlink", "file">>}) :
         file' = Unlink(Store, F).file
    /\ proc' = [proc EXCEPT !.pc = "done"]
    /\ last' = Running("done", TRUE)
    /\ UNCHANGED <<kc, kidx, avail, strict, steps>>

NextMigration ==
    \/ MigrateStart
    \/ MigrateOpen
    \/ MigrateDump
    \/ MigrateSetToken
    \/ MigrateSetSecret
    \/ MigrateIndex
    \/ MigrateUnlink

MigrationSpec == InitMigration /\ [][NextMigration]_vars

----------------------------------------------------------------------------
(* Properties *)

NoFault == {}
Absent == <<None, None>>
Complete(c) == Truthy(c[1]) /\ Truthy(c[2])

\* DOMENESHOP_TOKEN / DOMENESHOP_SECRET as the process may find them
EnvSet == <<"te", "se">>
EnvPairs == {Absent, EnvSet, <<"te", None>>, <<None, "se">>, <<"te", "">>}
\* the account_name argument of load_credentials, None when omitted
AccountArgs == ExactNames \cup {None}

\* C1: for every non-empty name n and complete credential c, from every
\* reachable store state, a save_account(n, c) that reports success followed
\* immediately by load_account(n) returns exactly c.  (Stated for the names
\* that trimming leaves as they are; a name with blanks around it is saved
\* under its trimmed form and never loads under the form given.)
C1_SaveLoadRoundTrip ==
    \A n \in {"A", "Standard"}, c \in Creds, p \in BOOLEAN :
      \A F \in FaultSets(SaveSites(Strip(n))) :
        LET r == save_account(Store, n, c[1], c[2], p, F)
        IN r.ok => load_account(r.st, n, NoFault) = c

\* C2: for every name n and from every reachable store state,
\* delete_account(n) followed immediately by load_account(n) returns
\* (None, None).
C2_DeleteThenLoadAbsent ==
    \A n \in ExactNames :
      load_account(delete_account(Store, n, NoFault).st, n, NoFault) = Absent

\* C3: whenever migrate_file_to_keychain reports success, every account the
\* file document resolved to a complete credential before the call resolves
\* through load_account to the same credential after it.
C3_MigrationLossless ==
    \A F \in FaultSets(CopySites(FileAccountNames(read_file_data(Store)))) :
      LET r == migrate_file_to_keychain(Store, F)
      IN r.ok =>
           \A n \in FileAccountNames(read_file_data(Store)) :
             Complete(LoadFile(Store, n)) =>
               load_account(r.st, n, NoFault) = LoadFile(Store, n)

\* C4: after a successful rename_account(old, new), load_account(new) returns
\* what load_account(old) returned before the call, for every pair of names
\* the operation accepts, new equal to old included.
C4_RenameKeepsCredential ==
    \A o \in ExactNames, n \in RawNames :
      LET r == rename_account(Store, o, n, NoFault)
      IN r.ok => load_account(r.st, Strip(n), NoFault) = load_account(Store, o, NoFault)

\* C5: needs_migration() is False immediately after every
\* migrate_single_to_multi or migrate_file_to_keychain that reported success.
C5_NoMigrationNeededAfterSuccess ==
    /\ \A n \in ExactNames :
         LET r == migrate_single_to_multi(Store, n, NoFault)
         IN r.ok => ~needs_migration(r.st, NoFault)
    /\ LET r == migrate_file_to_keychain(Store, NoFault)
       IN r.ok => ~needs_migration(r.st, NoFault)

\* C6: migrate_single_to_multi is idempotent on the account set: for every
\* target name, list_accounts() after calling it twice in a row equals
\* list_accounts() after calling it once.
C6_MigrateIdempotent ==
    \A n \in ExactNames :
      LET once == migrate_single_to_multi(Store, n, NoFault).st
          twice == migrate_single_to_multi(once, n, NoFault).st
      IN list_accounts(twice, NoFault) = list_accounts(once, NoFault)

\* a migration has just succeeded on the file, and the same call repeated
\* migrates the legacy keychain entries under the same name
C6_Witness ==
    /\ last.op = "migrate_single_to_multi" /\ last.ok /\ last.how = "file"
    /\ \E n \in ExactNames :
         /\ n \in FileAccountNames(read_file_data(Store))
         /\ migrate_single_to_multi(Store, n, NoFault).ok
         /\ migrate_single_to_multi(Store, n, NoFault).st # Store

\* C7: load_account(n) never returns a (token, secret) pair whose halves come
\* from different save_account calls, also after a keychain write that failed
\* between storing the token and storing the secret.
C7_NoMixedPair ==
    \A n \in ExactNames : load_account(Store, n, NoFault) \in Creds \cup {Absent}

\* C8: rename_account(old, new) where new names an existing account other
\* than old returns failure and leaves the file, the keychain secrets and
\* the keychain index unchanged.
C8_RenameOntoExistingRejected ==
    LET existing == Range(list_accounts(Store, NoFault))
    IN \A o \in ExactNames, n \in RawNames :
         (Strip(n) \in existing /\ Strip(n) # o) =>
           LET r == rename_account(Store, o, n, NoFault)
           IN ~r.ok /\ r.st = Store

\* a rename was refused because the new name exists, while both accounts hold
\* different credentials
C8_Witness ==
    /\ last.op = "rename_account" /\ ~last.ok /\ last.how = "exists"
    /\ \E o \in ExactNames, n \in RawNames :
         /\ rename_account(Store, o, n, NoFault).how = "exists"
         /\ Complete(load_account(Store, Strip(n), NoFault))
         /\ load_account(Store, o, NoFault) # load_account(Store, Strip(n), NoFault)

\* C9: with both environment variables set and non-empty, load_credentials
\* returns the environment pair for every store state and every account_name
\* argument, given or omitted.
C9_EnvironmentWins ==
    \A env \in EnvPairs, a \in AccountArgs :
      \A F \in FaultSets(LoadSites(a) \cup LegacySites \cup IndexSites) :
        Complete(env) => load_credentials(Store, env, a, F) = env

\* a stored account that load_credentials returns when the environment is
\* unset is overridden when it is set
C9_Witness ==
    /\ last.op = "save_account" /\ last.ok
    /\ \E a \in AccountArgs :
         /\ load_credentials(Store, Absent, a, NoFault) \in Creds
         /\ load_credentials(Store, EnvSet, a, NoFault) = EnvSet

\* what the file on disk contributes: its account names when it is a
\* multi-account document, "Standard" when legacy-shaped, nothing otherwise
C10_FileNames ==
    IF ~file.exists \/ ~file.parsable THEN {}
    ELSE IF file.doc.keys = {"version", "accounts"} /\ file.doc.version = 2
         THEN {file.doc.accounts[i][1] : i \in 1..Len(file.doc.accounts)}
    ELSE IF file.doc.keys = {"token", "secret"} THEN {"Standard"}
    ELSE {}

FileAccounts == Range(read_file_data(Store).accounts)

\* C11: with a working keychain (no keyring or file call raises) and a
\* multi-account file of k >= 1 accounts that all have a non-empty token and
\* secret, migrate_file_to_keychain stores both secrets of every account in
\* the keychain, lists every account in the index, deletes the file and
\* returns success with the count k.
C11_MigrateCopiesAll ==
    LET data == read_file_data(Store)
        r == migrate_file_to_keychain(Store, NoFault)
    IN (/\ avail
        /\ file.exists
        /\ is_multi_account_format(data)
        /\ Len(data.accounts) >= 1
        /\ \A a \in FileAccounts : Complete(<<a[2], a[3]>>))
       => /\ r.ok
          /\ r.n = Len(data.accounts)
          /\ ~r.st.file.exists
          /\ \A a \in FileAccounts :
               /\ r.st.kc[get_keychain_key(a[1], "token")] = a[2]
               /\ r.st.kc[get_keychain_key(a[1], "secret")] = a[3]
               /\ a[1] \in Range(r.st.kidx.val)

\* a file of two accounts has just been moved to the keychain
C11_Witness ==
    /\ last.op = "migrate_file_to_keychain" /\ last.ok
    /\ ~file.exists
    /\ Len(kidx.val) = 2
    /\ \A i \in 1..Len(kidx.val) :
         /\ Truthy(kc[get_keychain_key(kidx.val[i], "token")])
         /\ Truthy(kc[get_keychain_key(kidx.val[i], "secret")])

\* C12: whenever migrate_file_to_keychain reports failure (no keyring, no
\* file credentials, or no account copied because every keychain write
\* raised), the file on disk is what it was before the call, also when it
\* started in legacy shape.
C12_FailedMigrationKeepsFile ==
    \A F \in FaultSets({"set"} \X NameKeys(FileAccountNames(read_file_data(Store)))) :
      LET r == migrate_file_to_keychain(Store, F)
      IN ~r.ok => r.st.file = file

\* C13: save_account with an empty or whitespace-only name returns failure
\* and leaves the file, every keychain secret and the keychain index as they
\* were, whatever the credential, the preference and the calls that would
\* raise.
C13_EmptyNameNoEffect ==
    \A n \in {"", " "}, c \in Creds, p \in BOOLEAN :
      \A F \in FaultSets(SaveSites("")) :
        LET r == save_account(Store, n, c[1], c[2], p, F)
        IN ~r.ok /\ r.st = Store

\* a save under a blank name was refused on a store that holds credentials
C13_Witness ==
    /\ last.op = "save_account" /\ ~last.ok /\ last.how = "empty"
    /\ (file.exists \/ kidx.set)
    /\ ~save_account(Store, " ", "t1", "s1", TRUE, NoFault).ok

\* C14: save_account never writes both backends: a call that returns
\* (True, "keychain") leaves the file as it was, and a call that returns
\* (True, "file") leaves every keychain secret and the keychain index as they
\* were, also when the file is written after the keychain attempt raised.
C14_OneWayPreference ==
    \A n \in RawNames, c \in Creds, p \in BOOLEAN :
      \A F \in FaultSets(SaveCallSites(n, p)) :
        LET r == save_account(Store, n, c[1], c[2], p, F)
        IN /\ (r.ok /\ r.how = "keychain") => r.st.file = file
           /\ (r.ok /\ r.how = "file") => (r.st.kc = kc /\ r.st.kidx = kidx)

\* nothing is stored anywhere
EmptyStore == ~file.exists /\ kc = EmptyKc /\ ~kidx.set

\* C15: after every save_account(n, c) that reports success list_accounts()
\* contains n; and on an empty store the save of one name ("A" stands for the
\* scenario's "Work") reports "keychain" when keyring is available and "file"
\* otherwise, after which list_accounts() is exactly that name.
C15_SavedIsListed ==
    /\ \A n \in {"A", "Standard"}, c \in Creds, p \in BOOLEAN :
         \A F \in FaultSets(SaveCallSites(n, p)) :
           LET r == save_account(Store, n, c[1], c[2], p, F)
           IN r.ok => n \in Range(list_accounts(r.st, NoFault))
    /\ EmptyStore =>
         LET r == save_account(Store, "A", "t1", "s1", TRUE, NoFault)
         IN /\ r.ok
            /\ r.how = (IF avail THEN "keychain" ELSE "file")
            /\ list_accounts(r.st, NoFault) = <<"A">>

\* something stored for name in s is no longer stored in t
Removed(s, t, name) ==
    \/ \E k \in NameKeys({name}) : s.kc[k] # None /\ t.kc[k] = None
    \/ name \in Range(s.kidx.val) /\ name \notin Range(t.kidx.val)
    \/ /\ name \in FileAccountNames(read_file_data(s))
       /\ name \notin FileAccountNames(read_file_data(t))

\* C16: delete_account(name) returns True exactly when a backend removed
\* something stored for name: False when name is stored in neither backend,
\* True when the file entry is removed although the keychain delete raised.
C16_DeleteReportsRemoval ==
    \A n \in ExactNames :
      \A F \in FaultSets(DeleteSites(n)) :
        LET r == delete_account(Store, n, F)
        IN r.ok <=> Removed(Store, r.st, n)

\* one raising keychain write of the save together with one failing file write
SaveFailSets(n) ==
    FaultSets(FileSites)
    \cup {{k, f} : k \in {"set"} \X NameKeys({n}), f \in FileSites}

\* C17: when the save under the new name fails inside rename_account, the
\* old name is not deleted: rename_account returns failure and load_account
\* of the old name returns what it returned before the call.
C17_FailedSaveKeepsOld ==
    \A o \in ExactNames, n \in RawNames :
      \A F \in SaveFailSets(Strip(n)) :
        LET r == rename_account(Store, o, n, F)
        IN r.how = "failed" =>
             /\ ~r.ok
             /\ load_account(r.st, o, NoFault) = load_account(Store, o, NoFault)

\* the credential the backends hold for name n: the keychain pair when both
\* halves are stored, the entry of the multi-account file otherwise
C18_Stored(n) ==
    LET kt == get_keychain_key(n, "token")
        ks == get_keychain_key(n, "secret")
    IN IF avail /\ Truthy(kc[kt]) /\ Truthy(kc[ks]) THEN <<kc[kt], kc[ks]>>
       ELSE IF \E i \in 1..Len(file.doc.accounts) : file.doc.accounts[i][1] = n
            THEN LET i == CHOOSE j \in 1..Len(file.doc.accounts) :
                              file.doc.accounts[j][1] = n
                 IN <<file.doc.accounts[i][2], file.doc.accounts[i][3]>>
       ELSE Absent

\* the named accounts of both backends when the file is not legacy-shaped
C18_Named ==
    Range(kidx.val) \cup {file.doc.accounts[i][1] : i \in 1..Len(file.doc.accounts)}

\* C18: with the environment unset, load_credentials(name) is
\* load_account(name) when a name is given, legacy data or not; without a
\* name it is the legacy keychain pair when both halves are stored, else the
\* pair of a legacy-shaped file, else the credential of the only named
\* account when exactly one exists across both backends, else absent.
C18_LoadPriority ==
    /\ \A a \in ExactNames \ {""} :
         load_credentials(Store, Absent, a, NoFault) = load_account(Store, a, NoFault)
    /\ load_credentials(Store, Absent, None, NoFault) =
         IF avail /\ Truthy(kc["token"]) /\ Truthy(kc["secret"])
         THEN <<kc["token"], kc["secret"]>>
         ELSE IF file.exists /\ file.parsable /\ file.doc.keys = {"token", "secret"}
         THEN <<file.doc.token, file.doc.secret>>
         ELSE IF Cardinality(C18_Named) = 1
         THEN C18_Stored(CHOOSE n \in C18_Named : TRUE)
         ELSE Absent

\* C19: on a legacy-shaped file {token: T, secret: S} whose rewrite succeeds,
\* migrate_single_to_multi(target) returns success and leaves the file as
\* {version: 2, accounts: {target: {token: T, secret: S}}}; the keychain, its
\* legacy un-namespaced keys included, is left as it was.
C19_LegacyFileMigrated ==
    (file.exists /\ file.parsable /\ file.doc.keys = {"token", "secret"}) =>
      \A n \in ExactNames :
        LET r == migrate_single_to_multi(Store, n, NoFault)
        IN /\ r.ok
           /\ r.st.file.exists /\ r.st.file.parsable
           /\ r.st.file.doc.keys = {"version", "accounts"}
           /\ r.st.file.doc.version = 2
           /\ r.st.file.doc.accounts = << <<n, file.doc.token, file.doc.secret>> >>
           /\ r.st.kc = kc
           /\ r.st.kidx = kidx

\* the legacy file has just been migrated while the keychain still holds its
\* legacy un-namespaced pair
C19_Witness ==
    /\ last.op = "migrate_single_to_multi" /\ last.ok /\ last.how = "file"
    /\ file.doc.keys = {"version", "accounts"}
    /\ Len(file.doc.accounts) = 1
    /\ kc["token"] = "t2" /\ kc["secret"] = "s2"
    /\ ~kidx.set

\* a complete pair is stored in the keychain under a listed name or under
\* the legacy un-namespaced keys
C20_KeychainRetrievable ==
    /\ avail
    /\ \/ Complete(<<kc["token"], kc["secret"]>>)
       \/ \E n \in Range(kidx.val) :
            Complete(<<kc[get_keychain_key(n, "token")],
                       kc[get_keychain_key(n, "secret")]>>)

\* C20: get_storage_type returns "environment" exactly when both environment
\* variables are set (when load_credentials returns the environment pair);
\* otherwise "keychain" exactly when a named or legacy account is retrievable
\* from the keychain; otherwise "file" exactly when the file exists;
\* otherwise "none".
C20_StorageType ==
    \A env \in EnvPairs :
      get_storage_type(Store, env, NoFault) =
        IF Complete(env) /\ load_credentials(Store, env, None, NoFault) = env
        THEN "environment"
        ELSE IF C20_KeychainRetrievable THEN "keychain"
        ELSE IF file.exists THEN "file"
        ELSE "none"

\* C23: after delete_account(name) returns, name is not in the keychain
\* index, also when one or both of the account's keyed secrets were already
\* absent before the call.
C23_DeleteCleansIndex ==
    \A n \in ExactNames :
      n \notin Range(delete_account(Store, n, NoFault).st.kidx.val)

\* the index of store s has no duplicate and lists a name exactly when both
\* of its namespaced secrets are stored
IndexConsistent(s) ==
    /\ \A i \in 1..Len(s.kidx.val), j \in 1..Len(s.kidx.val) :
         i # j => s.kidx.val[i] # s.kidx.val[j]
    /\ \A n \in ExactNames :
         n \in Range(s.kidx.val) <=>
           (/\ s.kc[get_keychain_key(n, "token")] # None
            /\ s.kc[get_keychain_key(n, "secret")] # None)

\* C24: from a store whose index is consistent, every public operation in
\* which no keyring call is made to raise leaves the index consistent: no
\* duplicate name, and a name listed exactly when both of its namespaced
\* secrets are stored.
C24_IndexStaysConsistent ==
    IndexConsistent(Store) =>
      /\ \A n \in RawNames, c \in Creds, p \in BOOLEAN :
           IndexConsistent(save_account(Store, n, c[1], c[2], p, NoFault).st)
      /\ \A n \in ExactNames :
           /\ IndexConsistent(delete_account(Store, n, NoFault).st)
           /\ IndexConsistent(migrate_single_to_multi(Store, n, NoFault).st)
      /\ \A o \in ExactNames, n \in RawNames :
           IndexConsistent(rename_account(Store, o, n, NoFault).st)
      /\ IndexConsistent(migrate_file_to_keychain(Store, NoFault).st)
      /\ IndexConsistent(delete_credentials(Store, NoFault).st)

\* an account has just been deleted from a keychain that still lists another
C24_Witness ==
    /\ last.op = "delete_account" /\ last.ok
    /\ Len(kidx.val) = 1
    /\ IndexConsistent(Store)
    /\ \E n \in ExactNames \ Range(kidx.val) :
         IndexConsistent(save_account(Store, n, "t1", "s1", TRUE, NoFault).st)

\* C26: save_account(n, c) changes only account n: every other name that was
\* listed and resolved to a complete credential before the call is still
\* listed and resolves to the same credential after a call that reports
\* success.
C26_SaveKeepsOthers ==
    LET before == Range(list_accounts(Store, NoFault))
    IN \A n \in {"A", "Standard"}, c \in Creds, p \in BOOLEAN :
         \A F \in FaultSets(SaveCallSites(n, p)) :
           LET r == save_account(Store, n, c[1], c[2], p, F)
           IN \A m \in before \ {n} :
                (r.ok /\ Complete(load_account(Store, m, NoFault))) =>
                  /\ m \in Range(list_accounts(r.st, NoFault))
                  /\ load_account(r.st, m, NoFault) = load_account(Store, m, NoFault)

\* C27: after two successful save_account calls in a row for the same name,
\* with any preference and any raising keychain call in either, load_account
\* returns the credential of the second save.
C27_LatestSaveWins ==
    \A n \in {"A", "Standard"}, c1 \in Creds, c2 \in Creds, p1 \in BOOLEAN,
       p2 \in BOOLEAN :
      \A F1 \in FaultSets({"set"} \X NameKeys({n})),
         F2 \in FaultSets({"set"} \X NameKeys({n})) :
        LET r1 == save_account(Store, n, c1[1], c1[2], p1, F1)
            r2 == save_account(r1.st, n, c2[1], c2[2], p2, F2)
        IN (r1.ok /\ r2.ok) => load_account(r2.st, n, NoFault) = c2

\* C30: after delete_credentials() returns (always True), list_accounts() is
\* empty, needs_migration() is False, the file does not exist, the legacy
\* un-namespaced keys and the index key are gone and load_credentials() with
\* the environment unset returns absent, whatever the backends held.
C30_WholeStoreDeleted ==
    LET r == delete_credentials(Store, NoFault)
    IN /\ r.ok
       /\ list_accounts(r.st, NoFault) = <<>>
       /\ ~needs_migration(r.st, NoFault)
       /\ ~r.st.file.exists
       /\ r.st.kc["token"] = None /\ r.st.kc["secret"] = None
       /\ ~r.st.kidx.set
       /\ load_credentials(r.st, Absent, None, NoFault) = Absent

\* C21: no public operation lets an exception reach the caller, whatever is
\* persisted (no file, a file that is not JSON, a file holding JSON that is
\* not an object, an index that cannot be read) and whichever keyring call
\* raises.
C21_NoFaultEscapes ==
    /\ ~list_accounts_raises(Store, NoFault)
    /\ ~needs_migration_raises(Store, NoFault)
    /\ ~delete_credentials_raises(Store, NoFault)
    /\ ~migrate_file_to_keychain_raises(Store, NoFault)
    /\ \A a \in AccountArgs : ~load_credentials_raises(Store, Absent, a, NoFault)
    /\ \A n \in ExactNames :
         /\ \A F \in FaultSets(LoadSites(n)) : ~load_account_raises(Store, n, F)
         /\ ~delete_account_raises(Store, n, NoFault)
         /\ ~migrate_single_to_multi_raises(Store, n, NoFault)
    /\ \A n \in RawNames, c \in Creds, p \in BOOLEAN :
         \A F \in FaultSets(SaveCallSites(n, p)) :
           ~save_account_raises(Store, n, c[1], c[2], p, F)
    /\ \A o \in ExactNames, n \in RawNames :
         ~rename_account_raises(Store, o, n, NoFault)

\* C28: in every state where needs_migration() is True and no backend call
\* raises, migrate_single_to_multi returns success for every target name, so
\* that migrating whenever needs_migration() is true comes to an end.
C28_DetectionAndMigrationAgree ==
    needs_migration(Store, NoFault) =>
      \A n \in ExactNames : migrate_single_to_multi(Store, n, NoFault).ok

\* C29: starting from an empty store, every name list_accounts() returns
\* loads as a complete pair, and load_account never returns one of token and
\* secret without the other -- in every state reached, and also after a
\* save_account call that is handed an empty token or an empty secret.
C29_HalfCreds == {<<"", "s1">>, <<"t1", "">>}
C29_Loadable(s) ==
    /\ \A m \in Range(list_accounts(s, NoFault)) :
         Complete(load_account(s, m, NoFault))
    /\ \A n \in ExactNames :
         Truthy(load_account(s, n, NoFault)[1])
           <=> Truthy(load_account(s, n, NoFault)[2])
C29_ListedIsLoadable ==
    /\ C29_Loadable(Store)
    /\ \A c \in C29_HalfCreds, p \in BOOLEAN :
         C29_Loadable(save_account(Store, "A", c[1], c[2], p, NoFault).st)

\* C22: two processes save different names to the file with their reads and
\* writes interleaved.  When both writes succeeded, the file is the document
\* of the process that wrote last: it holds that process's account, and it
\* holds the other account exactly when the last writer read the file after
\* the other one had written it -- otherwise the other update is lost.
C22_LastWriteWins ==
    \A w \in Writers :
      ( /\ last.op = "write_file_data" /\ last.how = WriterName(w) /\ last.ok
        /\ proc[Other(w)].pc = "done" /\ proc[Other(w)].ok )
      => /\ file = FileOf(proc[w].data)
         /\ WriterName(w) \in AccNames(file.doc.accounts)
         /\ WriterName(Other(w)) \in AccNames(file.doc.accounts)
              <=> proc[w].after
\* both calls returned success and only one of the two accounts is stored
C22_Witness ==
    /\ \A w \in Writers : proc[w].pc = "done" /\ proc[w].ok
    /\ \E w \in Writers :
         /\ WriterName(w) \in AccNames(file.doc.accounts)
         /\ WriterName(Other(w)) \notin AccNames(file.doc.accounts)

\* the file is present with every account it held when the call started, and
\* load_account returns a complete pair for each of them
C25_Kept ==
    /\ file.exists
    /\ \A i \in 1..Len(proc.held) :
         /\ LoadFile(Store, proc.held[i][1])
              = <<proc.held[i][2], proc.held[i][3]>>
         /\ Complete(load_account(Store, proc.held[i][1], NoFault))

====
